---- MODULE Spec2Model ----
(***************************************************************************)
(* A model of indicator_recipes.core: seven stateless numerical functions. *)
(* Each function is an operator translated from its body; an action calls  *)
(* it on inputs drawn from bounded sets and records the call, its outcome  *)
(* (a returned value or a raised ValueError) and the warnings it emitted.  *)
(*                                                                         *)
(* Numbers are exact rationals <<n, d>> (d > 0, lowest terms), extended    *)
(* with the IEEE specials the code can meet: nan = <<0, 0>>,               *)
(* inf = <<1, 0>>, -inf = <<-1, 0>>.  Floating-point rounding is not       *)
(* modelled.                                                               *)
(***************************************************************************)
EXTENDS Integers, Sequences, FiniteSets, TLC

(* ------------------------------ bounds -------------------------------- *)

\* largest case count drawn as an input
MaxCases == 3
\* largest population drawn as an input
MaxPop == 3
\* largest scale drawn as an input
MaxScale == 2
\* longest array drawn as an input of rate_per
MaxLen == 2
\* longest series drawn as an input of rolling_mean (the documented example
\* series are drawn besides)
MaxSeriesLen == 3
\* largest value in a drawn series
MaxValue == 2
\* largest window drawn
MaxWindow == 4
\* largest number of strata (age groups) drawn
MaxStrata == 2

(* --------------------------- exact numbers ---------------------------- *)

Abs(n) == IF n < 0 THEN -n ELSE n

Sign(n) == IF n < 0 THEN -1 ELSE IF n > 0 THEN 1 ELSE 0

RECURSIVE GCD(_, _)
GCD(a, b) == IF b = 0 THEN a ELSE GCD(b, a % b)

\* the number n/d in canonical form; d = 0 gives nan / inf / -inf
R(n, d) ==
    IF d = 0 THEN <<Sign(n), 0>>
    ELSE LET g == GCD(Abs(n), Abs(d))
             s == Sign(d)
         IN  <<(s * n) \div g, (s * d) \div g>>

Num(k) == <<k, 1>>
Zero == <<0, 1>>
NaN == <<0, 0>>
Inf == <<1, 0>>

IsNaN(x) == x[2] = 0 /\ x[1] = 0
IsFinite(x) == x[2] # 0

\* IEEE comparison: anything compared with nan is false
RLt(a, b) ==
    IF IsNaN(a) \/ IsNaN(b) THEN FALSE
    ELSE IF a[2] = 0 /\ b[2] = 0 THEN a[1] < b[1]
    ELSE IF a[2] = 0 THEN a[1] < 0
    ELSE IF b[2] = 0 THEN b[1] > 0
    ELSE a[1] * b[2] < b[1] * a[2]

RLe(a, b) == ~IsNaN(a) /\ ~IsNaN(b) /\ ~RLt(b, a)

RMul(a, b) == R(a[1] * b[1], a[2] * b[2])

RDiv(a, b) == R(a[1] * b[2], a[2] * b[1])

RAdd(a, b) ==
    IF IsFinite(a) /\ IsFinite(b) THEN R(a[1] * b[2] + b[1] * a[2], a[2] * b[2])
    ELSE IF IsNaN(a) \/ IsNaN(b) THEN NaN
    ELSE IF IsFinite(b) THEN a
    ELSE IF IsFinite(a) \/ a = b THEN b
    ELSE NaN

RSub(a, b) ==
    IF IsFinite(a) /\ IsFinite(b) THEN R(a[1] * b[2] - b[1] * a[2], a[2] * b[2])
    ELSE IF IsNaN(a) \/ IsNaN(b) \/ a = b THEN NaN
    ELSE IF IsFinite(b) THEN a ELSE <<-b[1], 0>>

(* ------------------------- calls and outcomes ------------------------- *)

VARIABLES
    fn,        \* the function called last ("none" before any call)
    args,      \* its arguments
    outcome,   \* what the call ended in
    warnings   \* the warnings the call emitted, in order

vars == <<fn, args, outcome, warnings>>

\* a raised ValueError: its message and the offending value it formats, if any
Raise(msg, value) ==
    [kind |-> "error", shape |-> "none", val |-> <<>>,
     err |-> [msg |-> msg, value |-> value], warn |-> <<>>]

Return(shape, val, warn) ==
    [kind |-> "ok", shape |-> shape, val |-> val,
     err |-> [msg |-> "", value |-> <<>>], warn |-> warn]

NoOutcome ==
    [kind |-> "none", shape |-> "none", val |-> <<>>,
     err |-> [msg |-> "", value |-> <<>>]]

Outcome(r) == [kind |-> r.kind, shape |-> r.shape, val |-> r.val, err |-> r.err]

Init ==
    /\ fn = "none"
    /\ args = [none |-> TRUE]
    /\ outcome = NoOutcome
    /\ warnings = <<>>

\* nothing outlives a call: the caller consumes the outcome and the next call
\* starts from a clean slate
Discard ==
    /\ fn # "none"
    /\ fn' = "none"
    /\ args' = [none |-> TRUE]
    /\ outcome' = NoOutcome
    /\ warnings' = <<>>

\* every sequence over S of length at most n
RECURSIVE SeqsUpTo(_, _)
SeqsUpTo(S, n) ==
    IF n = 0 THEN {<<>>}
    ELSE LET shorter == SeqsUpTo(S, n - 1)
         IN  shorter \cup {Append(q, x) : q \in {t \in shorter : Len(t) = n - 1}, x \in S}

(* ------------------------------ rate_per ------------------------------ *)

\* np.asarray of a scalar (0-d) or of a sequence (1-d)
Scalar(x) == [shape |-> "scalar", val |-> <<x>>]
Array(xs) == [shape |-> "array", val |-> xs]

\* numpy broadcasting of two 0-d / 1-d operands
Broadcastable(a, b) ==
    \/ a.shape = "scalar"
    \/ b.shape = "scalar"
    \/ Len(a.val) = Len(b.val)
    \/ Len(a.val) = 1
    \/ Len(b.val) = 1

BroadcastShape(a, b) ==
    IF a.shape = "scalar" /\ b.shape = "scalar" THEN "scalar" ELSE "array"

BroadcastLen(a, b) ==
    IF a.shape = "scalar" THEN Len(b.val)
    ELSE IF b.shape = "scalar" THEN Len(a.val)
    ELSE IF Len(a.val) = 1 THEN Len(b.val)
    ELSE Len(a.val)

BroadcastAt(a, i) ==
    IF a.shape = "scalar" \/ Len(a.val) = 1 THEN a.val[1] ELSE a.val[i]

ScaleInvalidMut(scale) == RLt(scale, Zero)
\* if scale <= 0
ScaleInvalid(scale) == RLe(scale, Zero)

PopulationInvalidMut(population) ==
    \A i \in DOMAIN population.val : RLe(population.val[i], Zero)
\* if np.any(population <= 0)
PopulationInvalid(population) ==
    \E i \in DOMAIN population.val : RLe(population.val[i], Zero)

RateOfMut(c, p, scale) == RMul(RMul(c, p), scale)
\* (cases / population) * scale, for one element
RateOf(c, p, scale) == RMul(RDiv(c, p), scale)

rate_per(cases, population, scale) ==
    IF ScaleInvalid(scale)
    THEN Raise("Scale must be positive, got", <<scale>>)
    ELSE IF PopulationInvalid(population)
    THEN Raise("Population must be positive", <<>>)
    ELSE IF ~Broadcastable(cases, population)
    THEN Raise("operands could not be broadcast together", <<>>)
    ELSE LET rate == [i \in 1..BroadcastLen(cases, population) |->
                         RateOf(BroadcastAt(cases, i), BroadcastAt(population, i), scale)]
             nonfinite == \E i \in DOMAIN rate : ~IsFinite(rate[i])
         IN  Return(BroadcastShape(cases, population), rate,
                    IF nonfinite
                    THEN <<"Result contains non-finite values (inf or nan)">>
                    ELSE <<>>)

\* the inputs drawn for rate_per: integers, and the non-finite counts an
\* extreme input produces
RateCounts == {Num(k) : k \in -1..MaxCases} \cup {NaN, Inf}
RatePops == {Num(k) : k \in -1..MaxPop}
Scales == {Num(k) : k \in -1..MaxScale}
RateCaseInputs == {Scalar(x) : x \in RateCounts}
                      \cup {Array(xs) : xs \in SeqsUpTo(RateCounts, MaxLen)}
RatePopInputs == {Scalar(x) : x \in RatePops}
                     \cup {Array(xs) : xs \in SeqsUpTo(RatePops, MaxLen)}

CallRatePer ==
    /\ fn = "none"
    /\ \E cases \in RateCaseInputs, population \in RatePopInputs, scale \in Scales :
         LET r == rate_per(cases, population, scale)
         IN  /\ fn' = "rate_per"
             /\ args' = [cases |-> cases, population |-> population, scale |-> scale]
             /\ outcome' = Outcome(r)
             /\ warnings' = r.warn

SpecRatePer == Init /\ [][CallRatePer \/ Discard]_vars

(* ----------------------- rate_per: properties ------------------------- *)

\* the operands are paired: two scalars, or two collections of one length
Paired(a, b) ==
    /\ a.shape = b.shape
    /\ Len(a.val) = Len(b.val)

AllPositive(a) == \A i \in DOMAIN a.val : RLt(Zero, a.val[i])

Times(k, a) == [a EXCEPT !.val = [i \in DOMAIN a.val |-> RMul(Num(k), a.val[i])]]

\* C1: for Scale > 0 and every Population > 0, rate_per returns
\* Count x Scale / Population for every element, in the shape of its input
\* (scalar for scalars, a collection of the same length for collections);
\* multiplying Count by k multiplies the result by k, and multiplying
\* Population by k divides it by k.
C1_RatePerValue ==
    (/\ fn = "rate_per"
     /\ RLt(Zero, args.scale)
     /\ AllPositive(args.population)
     /\ Paired(args.cases, args.population))
    => /\ outcome.kind = "ok"
       /\ outcome.shape = args.cases.shape
       /\ Len(outcome.val) = Len(args.cases.val)
       /\ \A i \in DOMAIN outcome.val :
            LET c == args.cases.val[i]
                p == args.population.val[i]
            IN  outcome.val[i] = R(c[1] * args.scale[1] * p[2], c[2] * p[1])
       /\ \A k \in 1..3 :
            /\ rate_per(Times(k, args.cases), args.population, args.scale).val
                   = Times(k, outcome).val
            /\ Times(k, rate_per(args.cases, Times(k, args.population), args.scale)).val
                   = outcome.val

\* a call on two paired collections that returned a fractional rate
C1_Witness ==
    /\ fn = "rate_per"
    /\ args.cases = Array(<<Num(1), Num(2)>>)
    /\ args.population = Array(<<Num(3), Num(1)>>)
    /\ args.scale = Num(2)
    /\ outcome.kind = "ok"
    /\ outcome.shape = "array"
    /\ outcome.val = <<R(2, 3), Num(4)>>

\* C2: rate_per raises ValueError and returns nothing whenever Scale <= 0 or
\* some Population element is <= 0, even if it is the only such element.
C2_RatePerRejects ==
    (/\ fn = "rate_per"
     /\ \/ RLe(args.scale, Zero)
        \/ \E i \in DOMAIN args.population.val : RLe(args.population.val[i], Zero))
    => /\ outcome.kind = "error"
       /\ outcome.val = <<>>
       /\ outcome.err.msg \in {"Scale must be positive, got", "Population must be positive"}

\* a population collection whose last element alone is zero was rejected
C2_Witness ==
    /\ fn = "rate_per"
    /\ args.scale = Num(1)
    /\ args.population = Array(<<Num(2), Num(0)>>)
    /\ outcome.kind = "error"
    /\ outcome.err.msg = "Population must be positive"

(* --------------------------- poisson_rate_ci -------------------------- *)

One == <<1, 1>>

\* the probabilities at which the quantile function is tabulated, in
\* two-thousandths
Chi2Levels == <<10, 50, 100, 200, 500, 900, 1100, 1500, 1800, 1900, 1950, 1990>>

\* the chi-square quantiles, in thousandths: row df / 2, column as Chi2Levels
Chi2Table ==
    << <<10, 51, 103, 211, 575, 1196, 1597, 2773, 4605, 5991, 7378, 10597>>,
       <<207, 484, 711, 1064, 1923, 3047, 3687, 5385, 7779, 9488, 11143, 14860>>,
       <<676, 1237, 1635, 2204, 3455, 4952, 5765, 7841, 10645, 12592, 14449, 18548>>,
       <<1344, 2180, 2733, 3490, 5071, 6877, 7833, 10219, 13362, 15507, 17535, 21955>>,
       <<2156, 3247, 3940, 4865, 6737, 8812, 9892, 12549, 15987, 18307, 20483, 25188>>,
       <<3074, 4404, 5226, 6304, 8438, 10755, 11946, 14845, 18549, 21026, 23337, 28300>>,
       <<4075, 5629, 6571, 7790, 10165, 12703, 13996, 17117, 21064, 23685, 26119, 31319>>,
       <<5142, 6908, 7962, 9312, 11912, 14655, 16042, 19369, 23542, 26296, 28845, 34267>> >>

LevelIndex(level) == CHOOSE i \in DOMAIN Chi2Levels : Chi2Levels[i] = level

\* stats.chi2.ppf(p, df) for an even df, to three decimals
Chi2Ppf(p, df) ==
    R(Chi2Table[df \div 2][LevelIndex((p[1] * 2000) \div p[2])], 1000)

PyRoundMut(x) == x[1] \div x[2]
\* int(round(x)): to the nearest integer, a tie to the even one
PyRound(x) ==
    LET f == x[1] \div x[2]
        r == x[1] - f * x[2]
    IN  IF 2 * r < x[2] THEN f
        ELSE IF 2 * r > x[2] THEN f + 1
        ELSE IF f % 2 = 0 THEN f ELSE f + 1

CiPopulationInvalidMut(population) == RLt(population, Zero)
\* if population <= 0
CiPopulationInvalid(population) == RLe(population, Zero)

\* if not (0 < alpha < 1)
AlphaInvalid(alpha) == ~(RLt(Zero, alpha) /\ RLt(alpha, One))

LowerCountMut(n, alpha) ==
    IF n = 0 THEN Zero ELSE Chi2Ppf(RDiv(alpha, Num(2)), 2 * n)
\* lower_count: 0.0 if cases == 0 else stats.chi2.ppf(alpha / 2, 2 * cases) / 2
LowerCount(n, alpha) ==
    IF n = 0 THEN Zero
    ELSE RDiv(Chi2Ppf(RDiv(alpha, Num(2)), 2 * n), Num(2))

UpperCountMut(n, alpha) ==
    RDiv(Chi2Ppf(RDiv(alpha, Num(2)), 2 * (n + 1)), Num(2))
\* upper_count: stats.chi2.ppf(1 - alpha / 2, 2 * (cases + 1)) / 2
UpperCount(n, alpha) ==
    RDiv(Chi2Ppf(RSub(One, RDiv(alpha, Num(2))), 2 * (n + 1)), Num(2))

poisson_rate_ci(cases, population, scale, alpha) ==
    IF RLt(cases, Zero)
    THEN Raise("Cases must be non-negative, got", <<cases>>)
    ELSE IF CiPopulationInvalid(population)
    THEN Raise("Population must be positive, got", <<population>>)
    ELSE IF ScaleInvalid(scale)
    THEN Raise("Scale must be positive, got", <<scale>>)
    ELSE IF AlphaInvalid(alpha)
    THEN Raise("Alpha must be between 0 and 1 (exclusive), got", <<alpha>>)
    ELSE LET n == PyRound(cases)
             lower_count == LowerCount(n, alpha)
             upper_count == UpperCount(n, alpha)
             lower_rate == RMul(RDiv(lower_count, population), scale)
             upper_rate == RMul(RDiv(upper_count, population), scale)
         IN  Return("pair", <<lower_rate, upper_rate>>, <<>>)

\* the inputs drawn for poisson_rate_ci: counts in quarters, integer
\* populations and scales, significance levels inside and outside (0, 1)
CiCounts == {R(k, 4) : k \in -2..(4 * MaxCases)}
CiPops == {Num(k) : k \in -1..MaxPop}
Alphas == {R(a, 1000) : a \in {-50, 0, 10, 50, 100, 200, 500, 900, 1000, 1500}}

CallPoissonRateCi ==
    /\ fn = "none"
    /\ \E cases \in CiCounts, population \in CiPops, scale \in Scales, alpha \in Alphas :
         LET r == poisson_rate_ci(cases, population, scale, alpha)
         IN  /\ fn' = "poisson_rate_ci"
             /\ args' = [cases |-> cases, population |-> population,
                         scale |-> scale, alpha |-> alpha]
             /\ outcome' = Outcome(r)
             /\ warnings' = r.warn

SpecPoisson == Init /\ [][CallPoissonRateCi \/ Discard]_vars

(* -------------------- poisson_rate_ci: properties --------------------- *)

\* the preconditions the function documents
CiValid(cases, population, scale, alpha) ==
    /\ RLe(Zero, cases)
    /\ RLt(Zero, population)
    /\ RLt(Zero, scale)
    /\ RLt(Zero, alpha)
    /\ RLt(alpha, One)

CiArgsValid == CiValid(args.cases, args.population, args.scale, args.alpha)

Width(val) == RSub(val[2], val[1])

\* C3: for every valid input the returned pair satisfies
\* 0 <= lower_rate <= upper_rate.
C3_CiOrdered ==
    (fn = "poisson_rate_ci" /\ CiArgsValid)
    => /\ outcome.kind = "ok"
       /\ Len(outcome.val) = 2
       /\ RLe(Zero, outcome.val[1])
       /\ RLe(outcome.val[1], outcome.val[2])

\* a valid call with a positive count returned an interval
C3_Witness ==
    /\ fn = "poisson_rate_ci"
    /\ CiArgsValid
    /\ args.cases = Num(3)
    /\ args.alpha = R(900, 1000)
    /\ outcome.kind = "ok"
    /\ RLt(Zero, outcome.val[1])
    /\ RLt(outcome.val[1], outcome.val[2])

\* C4 as stated: for every valid input, lower_rate is 0 exactly when the
\* Count passed by the caller is 0.
C4_LowerZeroIffCountZero ==
    (fn = "poisson_rate_ci" /\ CiArgsValid)
    => /\ outcome.kind = "ok"
       /\ (outcome.val[1] = Zero) <=> (args.cases = Zero)

\* C4 amended: for every valid input, lower_rate is 0 exactly when the Count
\* rounds to 0, that is when 0 <= Count <= 1/2, and is strictly positive for
\* every accepted Count above 1/2.
C4_LowerZeroIffRoundsToZero ==
    (fn = "poisson_rate_ci" /\ CiArgsValid)
    => /\ outcome.kind = "ok"
       /\ (outcome.val[1] = Zero) <=> RLe(args.cases, R(1, 2))
       /\ RLt(R(1, 2), args.cases) => RLt(Zero, outcome.val[1])

\* a valid call with Count = 1/2 returned a lower rate of 0
C4_Witness ==
    /\ fn = "poisson_rate_ci"
    /\ CiArgsValid
    /\ args.cases = R(1, 2)
    /\ outcome.kind = "ok"
    /\ outcome.val[1] = Zero

\* the interval the documented formula gives for the integer count n, with
\* the quantiles read off the table: in thousandths, halved, per population,
\* times scale
CiFormula(n, population, scale, alpha) ==
    LET a == (alpha[1] * 1000) \div alpha[2]
        lo == IF n = 0 THEN 0 ELSE Chi2Table[n][LevelIndex(a)]
        hi == Chi2Table[n + 1][LevelIndex(2000 - a)]
    IN  <<R(lo * scale[1] * population[2], 2000 * population[1]),
          R(hi * scale[1] * population[2], 2000 * population[1])>>

\* C5: the interval returned for an accepted Count is the one the formula
\* gives for an integer n nearest to Count (lower_count 0 if n = 0, else the
\* alpha/2 quantile with 2n degrees of freedom halved; upper_count the
\* 1 - alpha/2 quantile with 2(n+1) degrees of freedom halved; both divided
\* by Population and multiplied by Scale), and it is the interval returned
\* for that integer n itself.
C5_CiFormulaOfNearest ==
    (fn = "poisson_rate_ci" /\ outcome.kind = "ok")
    => \E n \in 0..(MaxCases + 1) :
         /\ RLe(RSub(args.cases, Num(n)), R(1, 2))
         /\ RLe(RSub(Num(n), args.cases), R(1, 2))
         /\ outcome.val = CiFormula(n, args.population, args.scale, args.alpha)
         /\ outcome.val
              = poisson_rate_ci(Num(n), args.population, args.scale, args.alpha).val

\* a call with the fractional Count 7/4 returned the interval of Count 2
C5_Witness ==
    /\ fn = "poisson_rate_ci"
    /\ args.cases = R(7, 4)
    /\ args.alpha = R(50, 1000)
    /\ outcome.kind = "ok"
    /\ outcome.val = CiFormula(2, args.population, args.scale, args.alpha)
    /\ outcome.val # CiFormula(1, args.population, args.scale, args.alpha)

\* C6: poisson_rate_ci raises ValueError and returns no interval whenever
\* Count < 0, Population <= 0, Scale <= 0 or alpha is outside (0, 1); for
\* every other input it returns an interval.
C6_CiRejects ==
    fn = "poisson_rate_ci"
    => IF CiArgsValid
       THEN outcome.kind = "ok" /\ outcome.shape = "pair" /\ Len(outcome.val) = 2
       ELSE outcome.kind = "error" /\ outcome.val = <<>>

\* a call whose only fault is alpha = 1 was rejected
C6_Witness ==
    /\ fn = "poisson_rate_ci"
    /\ CiValid(args.cases, args.population, args.scale, R(1, 2))
    /\ args.alpha = One
    /\ outcome.kind = "error"
    /\ outcome.err.msg = "Alpha must be between 0 and 1 (exclusive), got"

\* C7: for the same Count, Population and Scale, every larger alpha in (0, 1)
\* gives a strictly narrower interval, also when Count is 0.
C7_LargerAlphaNarrower ==
    (fn = "poisson_rate_ci" /\ outcome.kind = "ok")
    => \A alpha2 \in Alphas :
         (RLt(args.alpha, alpha2) /\ RLt(alpha2, One))
         => LET other == poisson_rate_ci(args.cases, args.population,
                                         args.scale, alpha2)
            IN  /\ other.kind = "ok"
                /\ RLt(Width(other.val), Width(outcome.val))

\* a call with Count 0 and alpha 0.05 returned, and alpha 0.10 narrows it
C7_Witness ==
    /\ fn = "poisson_rate_ci"
    /\ args.cases = Zero
    /\ args.alpha = R(50, 1000)
    /\ outcome.kind = "ok"
    /\ RLt(Width(poisson_rate_ci(args.cases, args.population, args.scale,
                                 R(100, 1000)).val),
           Width(outcome.val))

(* ---------------------------- rolling_mean ---------------------------- *)

WindowInvalidMut(window) == window < 0
\* if window <= 0
WindowInvalid(window) == window <= 0

MinPeriodsInvalidMut(min_periods) == min_periods # <<>> /\ min_periods[1] < 0
\* if min_periods is not None and min_periods <= 0 (None is <<>>)
MinPeriodsInvalid(min_periods) == min_periods # <<>> /\ min_periods[1] <= 0

\* Series.rolling(...): pandas validates min_periods against an integer window
RollingInvalid(window, minp) == minp > window

Clip(x, lo, hi) == IF x < lo THEN lo ELSE IF x > hi THEN hi ELSE x

CenterOffsetMut(window, center) == IF center THEN window \div 2 ELSE 0
\* pandas' fixed window: a centered window is shifted right by (window - 1) // 2
CenterOffset(window, center) == IF center THEN (window - 1) \div 2 ELSE 0

\* the window of output i (0-based) holds the values at the 0-based indices
\* WindowStart .. WindowEnd - 1
WindowEnd(i, N, window, center) ==
    Clip(i + 1 + CenterOffset(window, center), 0, N)

WindowStart(i, N, window, center) ==
    Clip(i + 1 + CenterOffset(window, center) - window, 0, N)

AddMeanMut(acc, val) ==
    IF IsNaN(val) THEN <<acc[1], acc[2] + 1>> ELSE <<RAdd(acc[1], val), acc[2] + 1>>
\* pandas' running <<sum_x, nobs>>: a value enters the window; nan is skipped
AddMean(acc, val) ==
    IF IsNaN(val) THEN acc ELSE <<RAdd(acc[1], val), acc[2] + 1>>

\* a value leaves the window; nan is skipped
RemoveMean(acc, val) ==
    IF IsNaN(val) THEN acc ELSE <<RSub(acc[1], val), acc[2] - 1>>

\* add_mean over the 0-based indices lo .. hi - 1
RECURSIVE AddRange(_, _, _, _)
AddRange(acc, series, lo, hi) ==
    IF lo >= hi THEN acc
    ELSE AddRange(AddMean(acc, series[lo + 1]), series, lo + 1, hi)

\* remove_mean over the 0-based indices lo .. hi - 1
RECURSIVE RemoveRange(_, _, _, _)
RemoveRange(acc, series, lo, hi) ==
    IF lo >= hi THEN acc
    ELSE RemoveRange(RemoveMean(acc, series[lo + 1]), series, lo + 1, hi)

\* the running <<sum_x, nobs>> after output i: set up afresh for the first
\* window and for one that does not overlap the previous one, otherwise the
\* previous window's with the leavers removed and the newcomers added
RECURSIVE RollAcc(_, _, _, _)
RollAcc(series, window, center, i) ==
    LET N == Len(series)
        s == WindowStart(i, N, window, center)
        e == WindowEnd(i, N, window, center)
    IN  IF i = 0 \/ s >= WindowEnd(i - 1, N, window, center)
        THEN AddRange(<<Zero, 0>>, series, s, e)
        ELSE AddRange(
                 RemoveRange(RollAcc(series, window, center, i - 1), series,
                             WindowStart(i - 1, N, window, center), s),
                 series, WindowEnd(i - 1, N, window, center), e)

\* the mean if the window holds at least minp observations, nan otherwise
CalcMean(minp, acc) ==
    IF acc[2] >= minp /\ acc[2] > 0 THEN RDiv(acc[1], Num(acc[2])) ELSE NaN

rolling_mean(series, window, center, min_periods) ==
    IF WindowInvalid(window)
    THEN Raise("Window must be positive, got", <<Num(window)>>)
    ELSE IF MinPeriodsInvalid(min_periods)
    THEN Raise("min_periods must be positive, got", <<Num(min_periods[1])>>)
    ELSE LET minp == IF min_periods = <<>> THEN window ELSE min_periods[1]
         IN  IF RollingInvalid(window, minp)
             THEN Raise("min_periods must be <= window", <<Num(minp)>>)
             ELSE Return("series",
                         [i \in 1..Len(series) |->
                             CalcMean(minp, RollAcc(series, window, center, i - 1))],
                         <<>>)

\* the inputs drawn for rolling_mean: short series over a few values and nan,
\* the series of the documented examples, windows and min_periods around 0
\* and around each other
SeriesValues == {Num(k) : k \in 1..MaxValue} \cup {NaN}
ExampleSeries ==
    {<<Num(1), Num(2), Num(3), Num(4), Num(5)>>,
     <<Num(1), NaN, Num(3), Num(4), Num(5)>>}
SeriesInputs == SeqsUpTo(SeriesValues, MaxSeriesLen) \cup ExampleSeries
Windows == -1..MaxWindow
MinPeriodsInputs == {<<>>} \cup {<<k>> : k \in -1..(MaxWindow + 1)}

CallRollingMean ==
    /\ fn = "none"
    /\ \E series \in SeriesInputs, window \in Windows, center \in BOOLEAN,
          min_periods \in MinPeriodsInputs :
         LET r == rolling_mean(series, window, center, min_periods)
         IN  /\ fn' = "rolling_mean"
             /\ args' = [series |-> series, window |-> window, center |-> center,
                         min_periods |-> min_periods]
             /\ outcome' = Outcome(r)
             /\ warnings' = r.warn

SpecRolling == Init /\ [][CallRollingMean \/ Discard]_vars

(* ---------------------- rolling_mean: properties ---------------------- *)

RECURSIVE SumOver(_, _)
SumOver(series, J) ==
    IF J = {} THEN Zero
    ELSE LET j == CHOOSE x \in J : TRUE
         IN  RAdd(series[j], SumOver(series, J \ {j}))

\* the mean of the non-missing values of series at the (1-based) positions
\* lo .. hi that exist, if there are at least minp of them; missing otherwise
MeanOfWindow(series, lo, hi, minp) ==
    LET obs == {j \in DOMAIN series : lo <= j /\ j <= hi /\ ~IsNaN(series[j])}
    IN  IF Cardinality(obs) >= minp
        THEN RDiv(SumOver(series, obs), Num(Cardinality(obs)))
        ELSE NaN

\* min_periods as the call means it: the window when omitted
MinPeriodsOf(a) == IF a.min_periods = <<>> THEN a.window ELSE a.min_periods[1]

\* the result is as long as the input and element i is the windowed mean over
\* the positions i - back .. i + ahead
MeansOver(back, ahead) ==
    /\ outcome.kind = "ok"
    /\ Len(outcome.val) = Len(args.series)
    /\ \A i \in DOMAIN args.series :
         outcome.val[i] = MeanOfWindow(args.series, i - back, i + ahead,
                                       MinPeriodsOf(args))

\* C8 as stated: with center = false, for every window >= 1 and every
\* min_periods >= 1 (or omitted), rolling_mean returns a sequence as long as
\* the input whose element i is the mean of the non-missing inputs at
\* [i-window+1, i] if at least min_periods of them are non-missing, and is
\* missing otherwise.
C8_TrailingWindowAnyMinPeriods ==
    (/\ fn = "rolling_mean"
     /\ ~args.center
     /\ args.window >= 1
     /\ MinPeriodsOf(args) >= 1)
    => MeansOver(args.window - 1, 0)

\* C8 amended: the same, for every min_periods with
\* 1 <= min_periods <= window (or omitted).
C8_TrailingWindow ==
    (/\ fn = "rolling_mean"
     /\ ~args.center
     /\ args.window >= 1
     /\ MinPeriodsOf(args) >= 1
     /\ MinPeriodsOf(args) <= args.window)
    => MeansOver(args.window - 1, 0)

\* a trailing window over a series with a missing value returned the means of
\* the values present
C8_Witness ==
    /\ fn = "rolling_mean"
    /\ ~args.center
    /\ args.series = <<Num(1), NaN, Num(3), Num(4), Num(5)>>
    /\ args.window = 3
    /\ args.min_periods = <<2>>
    /\ outcome.kind = "ok"
    /\ outcome.val = <<NaN, NaN, Num(2), R(7, 2), Num(4)>>

\* C9: with center = true, whenever rolling_mean returns, element i is
\* computed over the indices [i - floor(window/2), i + ceil(window/2) - 1]
\* clipped to the sequence, for odd and even windows, with the min_periods
\* and missing-value rule of the trailing case; [1,2,3,4,5] with window 3 and
\* min_periods 1 gives [1.5, 2.0, 3.0, 4.0, 4.5].
C9_CenteredWindow ==
    (fn = "rolling_mean" /\ args.center /\ outcome.kind = "ok")
    => /\ args.window >= 1
       /\ MeansOver(args.window \div 2, (args.window + 1) \div 2 - 1)
       /\ (/\ args.series = <<Num(1), Num(2), Num(3), Num(4), Num(5)>>
           /\ args.window = 3
           /\ args.min_periods = <<1>>)
          => outcome.val = <<R(3, 2), Num(2), Num(3), Num(4), R(9, 2)>>

\* a centered call with an even window returned a series with a value in it
C9_Witness ==
    /\ fn = "rolling_mean"
    /\ args.center
    /\ args.series = <<Num(1), Num(2), Num(3), Num(4), Num(5)>>
    /\ args.window = 4
    /\ args.min_periods = <<3>>
    /\ outcome.kind = "ok"
    /\ outcome.val = <<NaN, Num(2), R(5, 2), R(7, 2), Num(4)>>

\* C10 as stated: rolling_mean raises ValueError if and only if window <= 0
\* or a given min_periods is <= 0; for every window > 0 and min_periods > 0
\* it returns a sequence.
C10_ErrorIffNonPositive ==
    fn = "rolling_mean"
    => IF args.window <= 0 \/ (args.min_periods # <<>> /\ args.min_periods[1] <= 0)
       THEN outcome.kind = "error"
       ELSE outcome.kind = "ok" /\ Len(outcome.val) = Len(args.series)

\* C10 amended: rolling_mean raises ValueError if and only if window <= 0, or
\* a given min_periods is <= 0, or a given min_periods exceeds window; in
\* every other case it returns a sequence as long as the input.
C10_ErrorIffNonPositiveOrTooMany ==
    fn = "rolling_mean"
    => IF \/ args.window <= 0
          \/ (args.min_periods # <<>> /\ args.min_periods[1] <= 0)
          \/ (args.min_periods # <<>> /\ args.min_periods[1] > args.window)
       THEN outcome.kind = "error" /\ outcome.val = <<>>
       ELSE outcome.kind = "ok" /\ Len(outcome.val) = Len(args.series)

\* a call with window 2 and min_periods 3, both positive, was rejected
C10_Witness ==
    /\ fn = "rolling_mean"
    /\ args.window = 2
    /\ args.min_periods = <<3>>
    /\ outcome.kind = "error"
    /\ outcome.err.msg = "min_periods must be <= window"

(* -------------------- direct_age_standardized_rate -------------------- *)

\* what a caller passes for a vector: a float ndarray of its own, or a list
NdArray(xs) == [kind |-> "ndarray", val |-> xs]
List(xs) == [kind |-> "list", val |-> xs]

\* np.asarray(x, dtype=float) for the three vectors: the local names hold the
\* values; a float ndarray is returned as it is (the local name is the
\* caller's object), a list is converted to a new array
AsArrays(counts_by_age, pop_by_age, std_weights) ==
    [local |-> [counts_arr |-> counts_by_age.val, pop_arr |-> pop_by_age.val,
                weights_arr |-> std_weights.val],
     alias |-> [counts_arr |-> counts_by_age.kind = "ndarray",
                pop_arr |-> pop_by_age.kind = "ndarray",
                weights_arr |-> std_weights.kind = "ndarray"],
     caller |-> [counts_arr |-> counts_by_age.val, pop_arr |-> pop_by_age.val,
                 weights_arr |-> std_weights.val]]

AssignMut(store, name, value) ==
    [store EXCEPT !.local[name] = value,
                  !.caller[name] = IF store.alias[name] THEN value ELSE @]
\* name = <expression>: the name is bound to a new array; the array it named
\* before is left as it was
Assign(store, name, value) ==
    [store EXCEPT !.local[name] = value, !.alias[name] = FALSE]

\* np.sum of a 1-d array
RECURSIVE SumSeq(_)
SumSeq(xs) == IF xs = <<>> THEN Zero ELSE RAdd(xs[1], SumSeq(Tail(xs)))

AnyNegativeMut(xs) == xs # <<>> /\ \A i \in DOMAIN xs : RLt(xs[i], Zero)
\* np.any(arr < 0)
AnyNegative(xs) == \E i \in DOMAIN xs : RLt(xs[i], Zero)

NormalizeMut(xs) == xs
\* arr / np.sum(arr)
Normalize(xs) == [i \in DOMAIN xs |-> RDiv(xs[i], SumSeq(xs))]

\* pop_arr > 0
ValidMask(pop_arr) == [i \in DOMAIN pop_arr |-> RLt(Zero, pop_arr[i])]

\* arr[mask]: the elements where the mask is true, in order
RECURSIVE Masked(_, _)
Masked(xs, mask) ==
    IF xs = <<>> THEN <<>>
    ELSE IF mask[1] THEN <<xs[1]>> \o Masked(Tail(xs), Tail(mask))
    ELSE Masked(Tail(xs), Tail(mask))

Not(mask) == [i \in DOMAIN mask |-> ~mask[i]]

LostCasesMut(counts_arr, valid_mask) == SumSeq(counts_arr)
\* lost_cases = np.sum(counts_arr[~valid_mask])
LostCases(counts_arr, valid_mask) == SumSeq(Masked(counts_arr, Not(valid_mask)))

\* warnings.warn(f"Excluding {lost_cases} cases in age groups with zero
\* population", UserWarning) if lost_cases > 0
LostCasesWarning(lost_cases) ==
    IF RLt(Zero, lost_cases)
    THEN <<[msg |-> "Excluding cases in age groups with zero population",
            value |-> lost_cases]>>
    ELSE <<>>

DropZeroPopulationMut(store, valid_mask) ==
    LET s1 == Assign(store, "weights_arr", Masked(store.local.weights_arr, valid_mask))
        s3 == Assign(s1, "counts_arr", Masked(s1.local.counts_arr, valid_mask))
    IN  Assign(s3, "pop_arr", Masked(s3.local.pop_arr, valid_mask))
\* lines 259-274: the strata with no population are dropped and the weights
\* of the others divided by their sum
DropZeroPopulation(store, valid_mask) ==
    LET s1 == Assign(store, "weights_arr", Masked(store.local.weights_arr, valid_mask))
        s2 == Assign(s1, "weights_arr", Normalize(s1.local.weights_arr))
        s3 == Assign(s2, "counts_arr", Masked(s2.local.counts_arr, valid_mask))
    IN  Assign(s3, "pop_arr", Masked(s3.local.pop_arr, valid_mask))

WeightedRateMut(counts_arr, pop_arr, weights_arr, scale) ==
    RMul(SumSeq([i \in DOMAIN counts_arr |-> RDiv(counts_arr[i], pop_arr[i])]), scale)
\* np.sum((counts_arr / pop_arr) * weights_arr) * scale
WeightedRate(counts_arr, pop_arr, weights_arr, scale) ==
    RMul(SumSeq([i \in DOMAIN counts_arr |->
                    RMul(RDiv(counts_arr[i], pop_arr[i]), weights_arr[i])]),
         scale)

AsrReturnMut(warn, rate) ==
    IF IsFinite(rate) THEN Return("scalar", <<rate>>, warn)
    ELSE [Raise("Standardized rate is not finite", <<>>) EXCEPT !.warn = warn]
\* return float(standardized_rate)
AsrReturn(warn, rate) == Return("scalar", <<rate>>, warn)

AsrLengthErrorMut == Raise("All input arrays must have the same length", <<Zero>>)
\* raise ValueError("All input arrays must have the same length")
AsrLengthError == Raise("All input arrays must have the same length", <<>>)

\* the call's outcome (out), the caller's three vectors as the call leaves
\* them (caller) and the arrays its local names hold when it ends (local)
direct_age_standardized_rate(counts_by_age, pop_by_age, std_weights, scale) ==
    LET s0 == AsArrays(counts_by_age, pop_by_age, std_weights)
        counts0 == s0.local.counts_arr
        pop0 == s0.local.pop_arr
        weights0 == s0.local.weights_arr
    IN  IF ScaleInvalid(scale)
        THEN [out |-> Raise("Scale must be positive, got", <<scale>>),
              caller |-> s0.caller,
              local |-> s0.local]
        ELSE IF ~(Len(counts0) = Len(pop0) /\ Len(pop0) = Len(weights0))
        THEN [out |-> AsrLengthError, caller |-> s0.caller,
              local |-> s0.local]
        ELSE IF AnyNegative(counts0)
        THEN [out |-> Raise("Counts cannot be negative", <<>>), caller |-> s0.caller,
              local |-> s0.local]
        ELSE IF AnyNegative(pop0)
        THEN [out |-> Raise("Population cannot be negative", <<>>), caller |-> s0.caller,
              local |-> s0.local]
        ELSE IF AnyNegative(weights0)
        THEN [out |-> Raise("Standard weights cannot be negative", <<>>),
              caller |-> s0.caller,
              local |-> s0.local]
        ELSE IF RLe(SumSeq(weights0), Zero)
        THEN [out |-> Raise("Standard weights must sum to a positive value", <<>>),
              caller |-> s0.caller,
              local |-> s0.local]
        ELSE LET s1 == Assign(s0, "weights_arr", Normalize(weights0))
                 valid_mask == ValidMask(s1.local.pop_arr)
                 excluding == \E i \in DOMAIN valid_mask : ~valid_mask[i]
                 warn == IF excluding
                         THEN LostCasesWarning(LostCases(s1.local.counts_arr, valid_mask))
                         ELSE <<>>
                 s2 == IF excluding THEN DropZeroPopulation(s1, valid_mask) ELSE s1
             IN  [out |-> AsrReturn(warn,
                                    WeightedRate(s2.local.counts_arr, s2.local.pop_arr,
                                                 s2.local.weights_arr, scale)),
                  caller |-> s2.caller, local |-> s2.local]

\* the inputs drawn: up to MaxStrata strata with counts in 0..1 and
\* populations and weights in 0..2, passed as arrays or as lists; besides, the
\* same with one entry made negative or one vector a stratum short
StratumCounts == {Num(k) : k \in 0..1}
StratumValues == {Num(k) : k \in 0..2}
Strata == SeqsUpTo(StratumCounts \X StratumValues \X StratumValues, MaxStrata)
Column(strata, k) == [i \in DOMAIN strata |-> strata[i][k]]
Negated(xs) == [i \in DOMAIN xs |-> IF i = 1 THEN Num(-1) ELSE xs[i]]
Shortened(xs) == SubSeq(xs, 1, Len(xs) - 1)
Faults == {"none", "negative", "short"}
Faulty(xs, fault) ==
    IF xs = <<>> \/ fault = "none" THEN xs
    ELSE IF fault = "negative" THEN Negated(xs) ELSE Shortened(xs)
\* at most one of the three vectors is faulty
FaultTriples ==
    {f \in Faults \X Faults \X Faults :
        Cardinality({k \in 1..3 : f[k] # "none"}) <= 1}
Passed(xs, ndarray) == IF ndarray THEN NdArray(xs) ELSE List(xs)
AsrScales == {Num(0), Num(1), Num(2)}

CallAsr ==
    /\ fn = "none"
    /\ \E strata \in Strata, f \in FaultTriples, scale \in AsrScales,
          ndarray \in BOOLEAN :
         LET counts == Passed(Faulty(Column(strata, 1), f[1]), ndarray)
             pops == Passed(Faulty(Column(strata, 2), f[2]), ndarray)
             weights == Passed(Faulty(Column(strata, 3), f[3]), ndarray)
             r == direct_age_standardized_rate(counts, pops, weights, scale)
         IN  /\ fn' = "direct_age_standardized_rate"
             /\ args' = [counts |-> counts, pops |-> pops, weights |-> weights,
                         scale |-> scale, after |-> r.caller]
             /\ outcome' = Outcome(r.out)
             /\ warnings' = r.out.warn

SpecAsr == Init /\ [][CallAsr \/ Discard]_vars

(* -------------- direct_age_standardized_rate: properties -------------- *)

\* the preconditions of a call: equal lengths, no negative entry, a positive
\* weight total, a positive scale
AsrValid(counts, pops, weights, scale) ==
    /\ Len(counts) = Len(pops)
    /\ Len(pops) = Len(weights)
    /\ \A i \in DOMAIN counts : RLe(Zero, counts[i])
    /\ \A i \in DOMAIN pops : RLe(Zero, pops[i])
    /\ \A i \in DOMAIN weights : RLe(Zero, weights[i])
    /\ RLt(Zero, SumOver(weights, DOMAIN weights))
    /\ RLt(Zero, scale)

AsrArgsValid ==
    AsrValid(args.counts.val, args.pops.val, args.weights.val, args.scale)

\* the strata that are kept: those with a positive population
Retained(pops) == {i \in DOMAIN pops : RLt(Zero, pops[i])}

\* the weights as applied: divided by their total and then, if a stratum is
\* dropped, by the total of the kept ones
AppliedWeights(pops, weights) ==
    LET total == SumOver(weights, DOMAIN weights)
        first == [i \in DOMAIN weights |-> RDiv(weights[i], total)]
        kept == SumOver(first, Retained(pops))
    IN  IF Retained(pops) = DOMAIN pops THEN first
        ELSE [i \in DOMAIN weights |-> RDiv(first[i], kept)]

\* Scale x the sum over the kept strata of Count/Population x applied weight
StandardizedRate(counts, pops, weights, scale) ==
    LET w == AppliedWeights(pops, weights)
        terms == [i \in DOMAIN counts |-> RMul(RDiv(counts[i], pops[i]), w[i])]
    IN  RMul(scale, SumOver(terms, Retained(pops)))

\* C11: for every valid input the function returns Scale x the sum over the
\* strata with Population > 0 of (Count/Population) x w, w being the weights
\* divided by their total and then, if some stratum has Population 0,
\* restricted to the kept strata and divided by the kept total; strata with
\* Population 0 contribute nothing.
C11_AsrValue ==
    (fn = "direct_age_standardized_rate" /\ AsrArgsValid)
    => /\ outcome.kind = "ok"
       /\ outcome.shape = "scalar"
       /\ outcome.val = <<StandardizedRate(args.counts.val, args.pops.val,
                                           args.weights.val, args.scale)>>

\* a valid call with one stratum of no population and unequal weights returned
\* the rate of the other strata
C11_Witness ==
    /\ fn = "direct_age_standardized_rate"
    /\ args.counts.val = <<Num(1), Num(1)>>
    /\ args.pops.val = <<Num(0), Num(2)>>
    /\ args.weights.val = <<Num(1), Num(2)>>
    /\ args.scale = Num(2)
    /\ outcome.kind = "ok"
    /\ outcome.val = <<Num(1)>>

TimesVec(k, vec) == [vec EXCEPT !.val = [i \in DOMAIN vec.val |-> RMul(k, vec.val[i])]]

\* C12: multiplying every standard weight by a constant k > 0 leaves the
\* returned rate unchanged.
C12_WeightScaleInvariant ==
    (fn = "direct_age_standardized_rate" /\ outcome.kind = "ok")
    => \A k \in {R(1, 2), Num(2), Num(3)} :
         LET other == direct_age_standardized_rate(
                          args.counts, args.pops, TimesVec(k, args.weights),
                          args.scale).out
         IN  other.kind = "ok" /\ other.val = outcome.val

\* a call with two kept strata of different rates and unequal weights
\* returned a rate that depends on the weights
C12_Witness ==
    /\ fn = "direct_age_standardized_rate"
    /\ args.counts.val = <<Num(1), Num(1)>>
    /\ args.pops.val = <<Num(2), Num(1)>>
    /\ args.weights.val = <<Num(1), Num(2)>>
    /\ args.scale = Num(1)
    /\ outcome.kind = "ok"
    /\ outcome.val = <<R(5, 6)>>

\* C13: the function raises ValueError and returns nothing whenever the three
\* vectors differ in length, an entry of any of them is negative, the weights
\* sum to a value <= 0 (empty vectors included) or Scale <= 0.
C13_AsrRejects ==
    (fn = "direct_age_standardized_rate" /\ ~AsrArgsValid)
    => /\ outcome.kind = "error"
       /\ outcome.val = <<>>
       /\ warnings = <<>>

\* a call whose only fault is a negative first population among positive ones
\* was rejected
C13_Witness ==
    /\ fn = "direct_age_standardized_rate"
    /\ args.scale = Num(1)
    /\ args.pops.val = <<Num(-1), Num(2)>>
    /\ outcome.kind = "error"
    /\ outcome.err.msg = "Population cannot be negative"

\* the strata with no population
Excluded(pops) == {i \in DOMAIN pops : pops[i] = Zero}

\* C14: a call that returns emits the warning about excluded cases if and only
\* if some stratum with Population 0 has Count > 0; the warning's N is the
\* total Count over the strata with Population 0; the result is returned with
\* or without the warning.
C14_LostCasesWarning ==
    (fn = "direct_age_standardized_rate" /\ AsrArgsValid)
    => LET lost == {i \in Excluded(args.pops.val) : RLt(Zero, args.counts.val[i])}
       IN  /\ outcome.kind = "ok"
           /\ (warnings # <<>>) <=> (lost # {})
           /\ lost # {}
              => /\ Len(warnings) = 1
                 /\ warnings[1].value
                      = SumOver(args.counts.val, Excluded(args.pops.val))

\* a call with cases in a stratum of no population returned a rate and warned
\* of the cases it excluded
C14_Witness ==
    /\ fn = "direct_age_standardized_rate"
    /\ args.counts.val = <<Num(1), Num(1)>>
    /\ args.pops.val = <<Num(0), Num(1)>>
    /\ outcome.kind = "ok"
    /\ Len(warnings) = 1
    /\ warnings[1].value = Num(1)

(* ----------------------------- rate_ratio ----------------------------- *)

\* raise ValueError("Populations must be positive")
PopulationsError == Raise("Populations must be positive", <<>>)

\* if pop_a <= 0 or pop_b <= 0
PopulationsInvalid(pop_a, pop_b) == RLe(pop_a, Zero) \/ RLe(pop_b, Zero)

ZeroReferenceMut(rate_a) ==
    Raise("Cannot compute rate ratio when reference rate is zero", <<>>)
\* rate_b == 0: 1.0 if rate_a == 0 too, otherwise the ratio is undefined
ZeroReference(rate_a) ==
    IF rate_a = Zero THEN Return("scalar", <<One>>, <<>>)
    ELSE Raise("Cannot compute rate ratio when reference rate is zero", <<>>)

rate_ratio(cases_a, pop_a, cases_b, pop_b) ==
    IF PopulationsInvalid(pop_a, pop_b) THEN PopulationsError
    ELSE LET rate_a == RDiv(cases_a, pop_a)
             rate_b == RDiv(cases_b, pop_b)
         IN  IF rate_b = Zero THEN ZeroReference(rate_a)
             ELSE Return("scalar", <<RDiv(rate_a, rate_b)>>, <<>>)

\* the inputs drawn for the two-group functions
GroupCounts == {Num(k) : k \in -1..MaxCases}
GroupPops == {Num(k) : k \in -1..MaxPop}

CallRateRatio ==
    /\ fn = "none"
    /\ \E cases_a \in GroupCounts, pop_a \in GroupPops,
          cases_b \in GroupCounts, pop_b \in GroupPops :
         LET r == rate_ratio(cases_a, pop_a, cases_b, pop_b)
         IN  /\ fn' = "rate_ratio"
             /\ args' = [cases_a |-> cases_a, pop_a |-> pop_a,
                         cases_b |-> cases_b, pop_b |-> pop_b]
             /\ outcome' = Outcome(r)
             /\ warnings' = r.warn

SpecRateRatio == Init /\ [][CallRateRatio \/ Discard]_vars

\* C15: with rateA = CountA/PopulationA and rateB = CountB/PopulationB,
\* rate_ratio raises ValueError if either population is <= 0; otherwise it
\* returns rateA/rateB if rateB # 0, exactly 1 if both rates are 0, and raises
\* ValueError if rateB = 0 and rateA # 0.
C15_RateRatioOutcomes ==
    fn = "rate_ratio"
    => LET ca == args.cases_a[1]
           cb == args.cases_b[1]
           pa == args.pop_a[1]
           pb == args.pop_b[1]
       IN  IF pa <= 0 \/ pb <= 0
           THEN outcome.kind = "error" /\ outcome.val = <<>>
           ELSE IF cb # 0
           THEN outcome.kind = "ok" /\ outcome.val = <<R(ca * pb, pa * cb)>>
           ELSE IF ca = 0
           THEN outcome.kind = "ok" /\ outcome.val = <<Num(1)>>
           ELSE outcome.kind = "error" /\ outcome.val = <<>>

\* a call with no cases in either group returned exactly 1
C15_Witness ==
    /\ fn = "rate_ratio"
    /\ args.cases_a = Zero
    /\ args.cases_b = Zero
    /\ args.pop_a = Num(2)
    /\ args.pop_b = Num(3)
    /\ outcome.kind = "ok"
    /\ outcome.val = <<Num(1)>>

(* --------------------------- rate_difference -------------------------- *)

DifferenceOfMut(rate_a, rate_b) == RSub(rate_b, rate_a)
\* return rate_a - rate_b
DifferenceOf(rate_a, rate_b) == RSub(rate_a, rate_b)

rate_difference(cases_a, pop_a, cases_b, pop_b, scale) ==
    IF ScaleInvalid(scale) THEN Raise("Scale must be positive, got", <<scale>>)
    ELSE IF PopulationsInvalid(pop_a, pop_b) THEN PopulationsError
    ELSE LET rate_a == RMul(RDiv(cases_a, pop_a), scale)
             rate_b == RMul(RDiv(cases_b, pop_b), scale)
         IN  Return("scalar", <<DifferenceOf(rate_a, rate_b)>>, <<>>)

CallRateDifference ==
    /\ fn = "none"
    /\ \E cases_a \in GroupCounts, pop_a \in GroupPops,
          cases_b \in GroupCounts, pop_b \in GroupPops, scale \in Scales :
         LET r == rate_difference(cases_a, pop_a, cases_b, pop_b, scale)
         IN  /\ fn' = "rate_difference"
             /\ args' = [cases_a |-> cases_a, pop_a |-> pop_a,
                         cases_b |-> cases_b, pop_b |-> pop_b, scale |-> scale]
             /\ outcome' = Outcome(r)
             /\ warnings' = r.warn

SpecRateDifference == Init /\ [][CallRateDifference \/ Discard]_vars

\* C16: for PopulationA > 0, PopulationB > 0 and Scale > 0, rate_difference
\* returns (CountA/PopulationA - CountB/PopulationB) x Scale, and the call
\* with the two groups swapped returns the negated value; it raises
\* ValueError when either population is <= 0 or Scale <= 0.
C16_RateDifferenceValue ==
    fn = "rate_difference"
    => LET ca == args.cases_a[1]
           cb == args.cases_b[1]
           pa == args.pop_a[1]
           pb == args.pop_b[1]
           s == args.scale[1]
           swapped == rate_difference(args.cases_b, args.pop_b, args.cases_a,
                                      args.pop_a, args.scale)
       IN  IF pa <= 0 \/ pb <= 0 \/ s <= 0
           THEN outcome.kind = "error" /\ outcome.val = <<>>
           ELSE /\ outcome.kind = "ok"
                /\ outcome.val = <<R((ca * pb - cb * pa) * s, pa * pb)>>
                /\ swapped.kind = "ok"
                /\ swapped.val = <<RSub(Zero, outcome.val[1])>>

\* a call with a lower rate in group A returned a negative difference
C16_Witness ==
    /\ fn = "rate_difference"
    /\ args.cases_a = Num(1)
    /\ args.pop_a = Num(3)
    /\ args.cases_b = Num(2)
    /\ args.pop_b = Num(2)
    /\ args.scale = Num(2)
    /\ outcome.kind = "ok"
    /\ outcome.val = <<R(-4, 3)>>

(* ------------------------- flag_small_numbers ------------------------- *)

\* threshold: int = 5
DefaultThreshold == 5

FlagOfMut(c, threshold) == RLe(c, threshold)
\* cases < threshold, for one element
FlagOf(c, threshold) == RLt(c, threshold)

\* threshold is <<>> when the caller omits it
flag_small_numbers(cases, threshold) ==
    LET t == IF threshold = <<>> THEN Num(DefaultThreshold) ELSE Num(threshold[1])
        result == [i \in DOMAIN cases.val |-> FlagOf(cases.val[i], t)]
    IN  Return(cases.shape, result, <<>>)

\* the inputs drawn: counts around the default threshold, a fraction and nan,
\* as a scalar or in an array; the threshold omitted or given
FlagCounts == {Num(k) : k \in {0, 3, 4, 5, 6}} \cup {R(9, 2), NaN}
FlagCaseInputs == {Scalar(x) : x \in FlagCounts}
                      \cup {Array(xs) : xs \in SeqsUpTo(FlagCounts, MaxLen)}
Thresholds == {<<>>} \cup {<<k>> : k \in 0..(MaxCases + 3)}

CallFlagSmallNumbers ==
    /\ fn = "none"
    /\ \E cases \in FlagCaseInputs, threshold \in Thresholds :
         LET r == flag_small_numbers(cases, threshold)
         IN  /\ fn' = "flag_small_numbers"
             /\ args' = [cases |-> cases, threshold |-> threshold]
             /\ outcome' = Outcome(r)
             /\ warnings' = r.warn

SpecFlag == Init /\ [][CallFlagSmallNumbers \/ Discard]_vars

\* C17: flag_small_numbers returns, for every element, the truth value of
\* Count < Threshold (Threshold 5 when omitted; a Count equal to the Threshold
\* is not flagged, Count 0 is flagged for a positive Threshold), in the shape
\* of its input, and never ends in an error.
C17_FlagIsLessThan ==
    fn = "flag_small_numbers"
    => LET t == IF args.threshold = <<>> THEN 5 ELSE args.threshold[1]
       IN  /\ outcome.kind = "ok"
           /\ outcome.shape = args.cases.shape
           /\ Len(outcome.val) = Len(args.cases.val)
           /\ \A i \in DOMAIN outcome.val :
                LET c == args.cases.val[i]
                IN  /\ outcome.val[i] <=> (c[2] # 0 /\ c[1] < t * c[2])
                    /\ c = Num(t) => ~outcome.val[i]
                    /\ (c = Zero /\ t > 0) => outcome.val[i]

\* a call on a collection with the threshold omitted flagged 3 and not 5
C17_Witness ==
    /\ fn = "flag_small_numbers"
    /\ args.threshold = <<>>
    /\ args.cases = Array(<<Num(3), Num(5)>>)
    /\ outcome.kind = "ok"
    /\ outcome.shape = "array"
    /\ outcome.val = <<TRUE, FALSE>>

(* --------------------------- the whole module -------------------------- *)

\* a caller makes one call of any of the seven functions, then consumes its
\* outcome
Next ==
    \/ CallRatePer
    \/ CallPoissonRateCi
    \/ CallRollingMean
    \/ CallAsr
    \/ CallRateRatio
    \/ CallRateDifference
    \/ CallFlagSmallNumbers
    \/ Discard

Spec == Init /\ [][Next]_vars

Functions ==
    {"rate_per", "poisson_rate_ci", "rolling_mean", "direct_age_standardized_rate",
     "rate_ratio", "rate_difference", "flag_small_numbers"}

\* C18: every call of any of the seven functions ends either in an error,
\* with no result and no warning emitted, or in a returned result, possibly
\* with warnings; a call that warned did not end in an error.
C18_ErrorOrResult ==
    fn # "none"
    => /\ fn \in Functions
       /\ outcome.kind \in {"ok", "error"}
       /\ outcome.kind = "error"
            => outcome.val = <<>> /\ outcome.shape = "none" /\ warnings = <<>>
                   /\ outcome.err.msg # ""
       /\ outcome.kind = "ok" => outcome.shape # "none" /\ outcome.err.msg = ""
       /\ warnings # <<>> => outcome.kind = "ok"

\* a call of direct_age_standardized_rate that warned about dropped cases
\* returned a result (nan: no weight is left on the strata it kept)
C18_Witness ==
    /\ fn = "direct_age_standardized_rate"
    /\ args.counts.val = <<Num(1), Num(0)>>
    /\ args.pops.val = <<Num(0), Num(1)>>
    /\ args.weights.val = <<Num(1), Num(0)>>
    /\ args.scale = Num(1)
    /\ warnings # <<>>
    /\ outcome.kind = "ok"
    /\ outcome.val = <<NaN>>

\* the value an error message ends with (", got ..."), from the call's
\* arguments: the first violated argument of poisson_rate_ci and of
\* rolling_mean, a scale that is not positive; <<>> for every other error
OffendingValue ==
    IF fn = "poisson_rate_ci"
    THEN IF args.cases[1] < 0 THEN <<args.cases>>
         ELSE IF args.population[1] <= 0 THEN <<args.population>>
         ELSE IF args.scale[1] <= 0 THEN <<args.scale>>
         ELSE <<args.alpha>>
    ELSE IF fn = "rolling_mean"
    THEN IF args.window <= 0 THEN <<Num(args.window)>>
         ELSE <<Num(args.min_periods[1])>>
    ELSE IF fn \in {"rate_per", "direct_age_standardized_rate", "rate_difference"}
            /\ args.scale[1] <= 0
    THEN <<args.scale>>
    ELSE <<>>

\* C19 as stated: every error raised by any of the seven functions carries
\* both the violated constraint and the offending value.
C19_ErrorCarriesValue ==
    (fn # "none" /\ outcome.kind = "error")
    => outcome.err.msg # "" /\ outcome.err.value # <<>>

\* C19 amended: every error carries the violated constraint; it carries the
\* offending value for a scale that is not positive, for the count, population
\* and alpha of poisson_rate_ci and for the window and min_periods of
\* rolling_mean, and no value for any other violated precondition (population
\* of rate_per, rate_ratio and rate_difference; the vectors of
\* direct_age_standardized_rate; a zero reference rate; operands of
\* incompatible lengths).
C19_ErrorCarriesConstraint ==
    (fn # "none" /\ outcome.kind = "error")
    => outcome.err.msg # "" /\ outcome.err.value = OffendingValue

\* a call of rate_ratio against a zero reference rate raised an error that
\* names the constraint and carries no value
C19_Witness ==
    /\ fn = "rate_ratio"
    /\ args.cases_a = Num(1)
    /\ args.pop_a = Num(1)
    /\ args.cases_b = Zero
    /\ args.pop_b = Num(1)
    /\ outcome.kind = "error"
    /\ outcome.err.msg = "Cannot compute rate ratio when reference rate is zero"
    /\ outcome.err.value = <<>>

\* the same function called a second time, on the arguments as the first call
\* left them in the caller's hands
SecondCall ==
    CASE fn = "rate_per" -> rate_per(args.cases, args.population, args.scale)
      [] fn = "poisson_rate_ci" ->
            poisson_rate_ci(args.cases, args.population, args.scale, args.alpha)
      [] fn = "rolling_mean" ->
            rolling_mean(args.series, args.window, args.center, args.min_periods)
      [] fn = "direct_age_standardized_rate" ->
            direct_age_standardized_rate(
                [args.counts EXCEPT !.val = args.after.counts_arr],
                [args.pops EXCEPT !.val = args.after.pop_arr],
                [args.weights EXCEPT !.val = args.after.weights_arr],
                args.scale).out
      [] fn = "rate_ratio" ->
            rate_ratio(args.cases_a, args.pop_a, args.cases_b, args.pop_b)
      [] fn = "rate_difference" ->
            rate_difference(args.cases_a, args.pop_a, args.cases_b, args.pop_b,
                            args.scale)
      [] fn = "flag_small_numbers" -> flag_small_numbers(args.cases, args.threshold)

\* C20: a call leaves the caller's count, population and weight vectors as
\* they were passed (also when direct_age_standardized_rate normalises and
\* filters them), and a second call with the same inputs ends in the same
\* outcome: same result, same error, same warnings.
C20_Pure ==
    fn # "none"
    => /\ fn = "direct_age_standardized_rate"
            => args.after = [counts_arr |-> args.counts.val,
                             pop_arr |-> args.pops.val,
                             weights_arr |-> args.weights.val]
       /\ Outcome(SecondCall) = outcome
       /\ SecondCall.warn = warnings

\* a call of direct_age_standardized_rate on arrays, which normalised the
\* weights and dropped a stratum, left the caller's arrays as they were
C20_Witness ==
    /\ fn = "direct_age_standardized_rate"
    /\ args.counts = NdArray(<<Num(1), Num(1)>>)
    /\ args.pops = NdArray(<<Num(0), Num(2)>>)
    /\ args.weights = NdArray(<<Num(1), Num(2)>>)
    /\ args.scale = Num(2)
    /\ warnings # <<>>
    /\ outcome.val = <<Num(1)>>
    /\ args.after.weights_arr = <<Num(1), Num(2)>>
    /\ args.after.pop_arr = <<Num(0), Num(2)>>

(* --------- direct_age_standardized_rate: the weights it applies -------- *)

\* the weights the call multiplies the stratum rates by: weights_arr at
\* line 280, for the arguments of the call
AppliedByCall ==
    direct_age_standardized_rate(args.counts, args.pops, args.weights,
                                 args.scale).local.weights_arr

\* C21: for every valid input that retains a stratum (Population > 0), the
\* weights applied to the retained strata are non-negative and sum to 1,
\* whether or not a stratum was excluded.
C21_AppliedWeightsSumToOne ==
    (/\ fn = "direct_age_standardized_rate"
     /\ AsrArgsValid
     /\ Retained(args.pops.val) # {})
    => /\ Len(AppliedByCall) = Cardinality(Retained(args.pops.val))
       /\ \A i \in DOMAIN AppliedByCall : RLe(Zero, AppliedByCall[i])
       /\ SumSeq(AppliedByCall) = One

(* ---------- direct_age_standardized_rate in rounded arithmetic --------- *)

\* the significant bits a float carries in this section (a double carries 53)
MantissaBits == 4

\* n/d scaled by powers of two into [2^(MantissaBits-1), 2^MantissaBits),
\* with the exponent e taken out: <<n, d, e>>
RECURSIVE Normalized(_, _, _)
Normalized(n, d, e) ==
    IF n >= (2 ^ MantissaBits) * d THEN Normalized(n, 2 * d, e + 1)
    ELSE IF n < (2 ^ (MantissaBits - 1)) * d THEN Normalized(2 * n, d, e - 1)
    ELSE <<n, d, e>>

\* the float nearest to x, ties to the even mantissa; nan, inf and 0 are floats
Fl(x) ==
    IF ~IsFinite(x) \/ x = Zero THEN x
    ELSE LET t == Normalized(Abs(x[1]), x[2], 0)
             q == t[1] \div t[2]
             rest == t[1] - q * t[2]
             mantissa == IF 2 * rest > t[2] \/ (2 * rest = t[2] /\ q % 2 = 1)
                         THEN q + 1 ELSE q
             e == t[3]
         IN  IF e >= 0 THEN R(Sign(x[1]) * mantissa * (2 ^ e), 1)
             ELSE R(Sign(x[1]) * mantissa, 2 ^ (0 - e))

\* the float operations of lines 251-280
FDiv(a, b) == Fl(RDiv(a, b))
FMul(a, b) == Fl(RMul(a, b))
FAdd(a, b) == Fl(RAdd(a, b))

\* np.sum of a short 1-d array: the elements added in order
RECURSIVE FSumFrom(_, _)
FSumFrom(acc, xs) == IF xs = <<>> THEN acc ELSE FSumFrom(FAdd(acc, xs[1]), Tail(xs))
FSum(xs) == FSumFrom(Zero, xs)

\* arr / np.sum(arr)
FNormalize(xs) == [i \in DOMAIN xs |-> FDiv(xs[i], FSum(xs))]

\* np.sum((counts_arr / pop_arr) * weights_arr) * scale
FWeightedRate(counts_arr, pop_arr, weights_arr, scale) ==
    FMul(FSum([i \in DOMAIN counts_arr |->
                  FMul(FDiv(counts_arr[i], pop_arr[i]), weights_arr[i])]),
         scale)

\* lines 230-282 with every arithmetic result rounded to a float: the
\* validations, the warning and the caller's vectors are those of
\* direct_age_standardized_rate (a sum of non-negative floats is <= 0 exactly
\* when the exact sum is); the rate goes through lines 251-280 in floats
direct_age_standardized_rate_float(counts_by_age, pop_by_age, std_weights, scale) ==
    LET exact == direct_age_standardized_rate(counts_by_age, pop_by_age,
                                              std_weights, scale)
        weights1 == FNormalize(std_weights.val)
        valid_mask == ValidMask(pop_by_age.val)
        excluding == \E i \in DOMAIN valid_mask : ~valid_mask[i]
        weights_arr == IF excluding THEN FNormalize(Masked(weights1, valid_mask))
                       ELSE weights1
        counts_arr == IF excluding THEN Masked(counts_by_age.val, valid_mask)
                      ELSE counts_by_age.val
        pop_arr == IF excluding THEN Masked(pop_by_age.val, valid_mask)
                   ELSE pop_by_age.val
    IN  IF exact.out.kind = "error" THEN exact
        ELSE [exact EXCEPT !.out.val =
                  <<FWeightedRate(counts_arr, pop_arr, weights_arr, scale)>>]

\* the inputs drawn: up to MaxRoundedStrata strata with counts and
\* populations in 0..1 and weights in 1..2, passed as lists
MaxRoundedStrata == 3
RoundedStrata ==
    SeqsUpTo({Num(k) : k \in 0..1} \X {Num(k) : k \in 0..1} \X {Num(k) : k \in 1..2},
             MaxRoundedStrata)

CallAsrRounded ==
    /\ fn = "none"
    /\ \E strata \in RoundedStrata, scale \in AsrScales :
         LET counts == List(Column(strata, 1))
             pops == List(Column(strata, 2))
             weights == List(Column(strata, 3))
             r == direct_age_standardized_rate_float(counts, pops, weights, scale)
         IN  /\ fn' = "direct_age_standardized_rate"
             /\ args' = [counts |-> counts, pops |-> pops, weights |-> weights,
                         scale |-> scale, after |-> r.caller]
             /\ outcome' = Outcome(r.out)
             /\ warnings' = r.out.warn

SpecAsrRounded == Init /\ [][CallAsrRounded \/ Discard]_vars

\* the rate with one normalisation after the filter, in exact arithmetic: the
\* raw weights of the strata with Population > 0, each divided once by their
\* total
SingleNormalization(counts, pops, weights, scale) ==
    LET kept == SumOver(weights, Retained(pops))
        terms == [i \in DOMAIN counts |->
                     RMul(RDiv(counts[i], pops[i]), RDiv(weights[i], kept))]
    IN  RMul(scale, SumOver(terms, Retained(pops)))

\* the same in floats: filter the raw weights, divide once, weight and sum
SingleNormalizationFloat(counts, pops, weights, scale) ==
    LET valid_mask == ValidMask(pops)
    IN  FWeightedRate(Masked(counts, valid_mask), Masked(pops, valid_mask),
                      FNormalize(Masked(weights, valid_mask)), scale)

ScaledStratumRate(i) ==
    RMul(args.scale, RDiv(args.counts.val[i], args.pops.val[i]))

\* C23: for every valid input that retains a stratum (Population > 0), the
\* result lies between the smallest and the largest Scale x Count/Population
\* of the retained strata; with a single stratum of positive population and
\* positive weight it equals rate_per(Count, Population, Scale).
C23_WeightedAverage ==
    (/\ fn = "direct_age_standardized_rate"
     /\ AsrArgsValid
     /\ Retained(args.pops.val) # {})
    => /\ outcome.kind = "ok"
       /\ \E i \in Retained(args.pops.val) :
            RLe(ScaledStratumRate(i), outcome.val[1])
       /\ \E i \in Retained(args.pops.val) :
            RLe(outcome.val[1], ScaledStratumRate(i))
       /\ (Len(args.pops.val) = 1 /\ RLt(Zero, args.weights.val[1]))
            => outcome.val = rate_per(Scalar(args.counts.val[1]),
                                      Scalar(args.pops.val[1]), args.scale).val

====
